---- MODULE Spec2Model ----
(***************************************************************************)
(* Board logic of dynamaze (src/src/board.rs): the grid of tiles, the      *)
(* loose tile, the staged insertion slot, the player tokens, the lane      *)
(* shift of insert_loose_tile and the worklist loop of reachable_coords.   *)
(***************************************************************************)
EXTENDS Integers, Sequences, FiniteSets, TLC

VARIABLES
    cells,                \* Board.cells: row index -> (column index -> Tile)
    loose_tile,           \* Board.loose_tile
    loose_tile_position,  \* Board.loose_tile_position: None or <<dir, guide_idx>>
    player_tokens,        \* Board.player_tokens: PlayerID -> PlayerToken
    status,               \* "ok", "unbuilt" before Board::new ran, or which call panicked
    last,                 \* the operation performed last
    pre,                  \* the board as it was when the last insert_loose_tile was called
    born,                 \* the board as Board::new returned it
    args,                 \* the width, height and players Board::new was called with
    ops,                  \* insertions and token moves performed so far
    from,                 \* reachable_coords: its argument
    result,               \* reachable_coords: the HashSet result
    frontier,             \* reachable_coords: the Vec frontier (top of stack last)
    pushes,               \* reachable_coords: how often each cell was pushed on frontier
    rpc                   \* reachable_coords: "idle", "loop" or "done"

vars == <<cells, loose_tile, loose_tile_position, player_tokens, status, last,
          pre, born, args, ops, from, result, frontier, pushes, rpc>>

boardVars == <<cells, loose_tile, loose_tile_position, player_tokens>>
reachVars == <<from, result, frontier, pushes, rpc>>

----------------------------------------------------------------------------
(* Bounds of the model *)

\* board sides are 2k+1 for k in 1..MaxHalf
MaxHalf == 3
\* seeds of the random source Board::new draws from under Spec
NumSeeds == 1
\* seeds of the random source Board::new draws from under SpecReach
NumReachSeeds == 5
\* insertions and token moves in one behaviour
MaxOps == 2
\* player ids a caller of Board::new picks its players from
MaxPlayers == 6

----------------------------------------------------------------------------
(* Direction, Shape, Tile: the primitives of the crate root *)

Directions == {"North", "East", "South", "West"}

DirIndex(d) ==
    CASE d = "North" -> 0
      [] d = "East"  -> 1
      [] d = "South" -> 2
      [] d = "West"  -> 3

DirOfIndex(n) ==
    CASE n = 0 -> "North"
      [] n = 1 -> "East"
      [] n = 2 -> "South"
      [] n = 3 -> "West"

\* Direction * Direction: composition of quarter turns, North being no turn
DirMul(a, b) == DirOfIndex((DirIndex(a) + DirIndex(b)) % 4)

\* opposite(dir), written dir * Direction::South in board.rs
opposite(d) == DirMul(d, "South")

\* (row, col) + Direction: the unit step
step(ind, dir) ==
    CASE dir = "North" -> <<ind[1] - 1, ind[2]>>
      [] dir = "South" -> <<ind[1] + 1, ind[2]>>
      [] dir = "West"  -> <<ind[1], ind[2] - 1>>
      [] dir = "East"  -> <<ind[1], ind[2] + 1>>

Shapes == {"L", "I", "T"}

\* the passages of a shape before rotation, in iteration order
ShapePaths(shape) ==
    CASE shape = "L" -> <<"North", "East">>
      [] shape = "I" -> <<"North", "South">>
      [] shape = "T" -> <<"North", "East", "South">>

Tile(shape, orientation) == [shape |-> shape, orientation |-> orientation]

\* Tile::paths as the Vec the loops iterate over
pathsSeq(tile) ==
    LET base == ShapePaths(tile.shape)
    IN [k \in 1..Len(base) |-> DirMul(base[k], tile.orientation)]

\* Tile::paths as a set
paths(tile) == {pathsSeq(tile)[k] : k \in 1..Len(pathsSeq(tile))}

\* the k-th value of the random source seeded with seed
Draw(seed, k) == (seed + k * (2 * seed + 5) + (k \div 5)) % 12

\* random(): the Tile sampled by the k-th draw
random(seed, k) ==
    LET x == Draw(seed, k)
    IN Tile(CASE x % 3 = 0 -> "L" [] x % 3 = 1 -> "I" [] x % 3 = 2 -> "T",
            DirOfIndex(x \div 3))

----------------------------------------------------------------------------
(* Board *)

None == <<>>
Some(dir, guide_idx) == <<dir, guide_idx>>

\* the corners a board hands out to tokens
MaxTokens == 4

PlayerIDs == 1..(MaxTokens + 1)

\* Board::height and Board::width of a grid
Height(c) == Cardinality(DOMAIN c)
Width(c) == Cardinality(DOMAIN c[0])

height == Height(cells)
width == Width(cells)

\* the cells of a grid
Coords(c) == (0..(Height(c) - 1)) \X (0..(Width(c) - 1))

\* valid with the North bound off by one
validOffByOne(c, ind, dir) ==
    LET j == ind[1]
        i == ind[2]
    IN CASE dir = "North" -> j > 1
         [] dir = "South" -> j < Height(c) - 1
         [] dir = "West"  -> i > 0
         [] dir = "East"  -> i < Width(c) - 1

\* Board::valid
valid(c, ind, dir) ==
    LET j == ind[1]
        i == ind[2]
    IN CASE dir = "North" -> j > 0
         [] dir = "South" -> j < Height(c) - 1
         [] dir = "West"  -> i > 0
         [] dir = "East"  -> i < Width(c) - 1

\* PlayerToken::new
PlayerToken(player, position) == [player_id |-> player, position |-> position]

\* the corners handed out clockwise from the top-left one
StartPositionClockwise(i, w, h) ==
    CASE i = 0 -> <<0, 0>>
      [] i = 1 -> <<0, w - 1>>
      [] i = 2 -> <<h - 1, w - 1>>
      [] i = 3 -> <<h - 1, 0>>
      [] OTHER -> "panic"

\* the corner of the i-th entry (from 0) of the iteration over the players map
StartPosition(i, w, h) ==
    CASE i = 0 -> <<0, 0>>
      [] i = 1 -> <<h - 1, w - 1>>
      [] i = 2 -> <<0, w - 1>>
      [] i = 3 -> <<h - 1, 0>>
      [] OTHER -> "panic"

\* the grid with the corner cells left as the random source drew them
NewCellsRandomCorners(w, h, seed) ==
    [j \in 0..(h - 1) |-> [i \in 0..(w - 1) |-> random(seed, j * w + i)]]

\* the grid Board::new builds: random tiles in row-major order, then the corners
NewCells(w, h, seed) ==
    [j \in 0..(h - 1) |-> [i \in 0..(w - 1) |->
        CASE j = 0 /\ i = 0         -> Tile("L", "East")
          [] j = 0 /\ i = w - 1     -> Tile("L", "South")
          [] j = h - 1 /\ i = 0     -> Tile("L", "North")
          [] j = h - 1 /\ i = w - 1 -> Tile("L", "West")
          [] OTHER                  -> random(seed, j * w + i)]]

\* the tokens Board::new builds: the map is iterated by ascending PlayerID
NewTokens(w, h, players) ==
    [p \in players |->
        PlayerToken(p, StartPosition(Cardinality({q \in players : q < p}), w, h))]

\* the board's fields, as a record
Snapshot ==
    [cells |-> cells, loose_tile |-> loose_tile,
     loose_tile_position |-> loose_tile_position, player_tokens |-> player_tokens]

Sides == {2 * k + 1 : k \in 1..MaxHalf}
Seeds == 0..(NumSeeds - 1)
ReachSeeds == 0..(NumReachSeeds - 1)
PlayerSets == {{2, 4}, PlayerIDs}
ReachPlayerSets == {{}, {1, 2, 3, 5}}

\* Board::new handing out the corners again from the fifth player on
BuiltWrapping(w, h, seed, players) ==
    [status |-> "ok",
     cells |-> NewCells(w, h, seed),
     loose_tile |-> random(seed, h * w),
     player_tokens |->
        [p \in players |->
            PlayerToken(p, StartPosition(Cardinality({q \in players : q < p}) % MaxTokens, w, h))]]

\* what Board::new(width, height, players) leaves: the fields of the Board it
\* returns, or no Board when the match of line 58 panics
Built(w, h, seed, players) ==
    IF Cardinality(players) > MaxTokens
    THEN [status |-> "new_panicked",
          cells |-> <<>>,
          loose_tile |-> Tile("L", "North"),
          player_tokens |-> <<>>]
    ELSE [status |-> "ok",
          cells |-> NewCells(w, h, seed),
          loose_tile |-> random(seed, h * w),
          player_tokens |-> NewTokens(w, h, players)]

\* the state once Board::new(width, height, players) has run
New(w, h, seed, players) ==
    /\ from = <<0, 0>>
    /\ result = {}
    /\ frontier = <<>>
    /\ pushes = <<>>
    /\ rpc = "idle"
    /\ ops = 0
    /\ last = "new"
    /\ loose_tile_position = None
    /\ status = Built(w, h, seed, players).status
    /\ cells = Built(w, h, seed, players).cells
    /\ loose_tile = Built(w, h, seed, players).loose_tile
    /\ player_tokens = Built(w, h, seed, players).player_tokens
    /\ pre = Snapshot
    /\ born = Snapshot
    /\ args = [width |-> w, height |-> h, players |-> players]

Init ==
    \E w \in Sides, h \in Sides, seed \in Seeds, players \in PlayerSets :
        New(w, h, seed, players)

InitReach ==
    \E w \in Sides, h \in Sides, seed \in ReachSeeds, players \in ReachPlayerSets :
        New(w, h, seed, players)

\* the maps of players a caller may hand to Board::new, each keyed by player id
NewPlayerSets == SUBSET (1..MaxPlayers)

\* before a game is set up no Board exists
InitNew ==
    /\ status = "unbuilt"
    /\ cells = <<>>
    /\ loose_tile = Tile("L", "North")
    /\ loose_tile_position = None
    /\ player_tokens = <<>>
    /\ last = "none"
    /\ ops = 0
    /\ pre = Snapshot
    /\ born = Snapshot
    /\ args = [width |-> 0, height |-> 0, players |-> {}]
    /\ from = <<0, 0>>
    /\ result = {}
    /\ frontier = <<>>
    /\ pushes = <<>>
    /\ rpc = "idle"

\* a game is set up: Board::new is called and its board replaces the one held
BoardNew ==
    /\ status = "unbuilt"
    /\ \E w \in Sides, h \in Sides, seed \in Seeds, players \in NewPlayerSets :
          LET b == Built(w, h, seed, players)
          IN /\ status' = b.status
             /\ cells' = b.cells
             /\ loose_tile' = b.loose_tile
             /\ player_tokens' = b.player_tokens
             /\ pre' = [cells |-> b.cells, loose_tile |-> b.loose_tile,
                        loose_tile_position |-> None, player_tokens |-> b.player_tokens]
             /\ born' = pre'
             /\ args' = [width |-> w, height |-> h, players |-> players]
    /\ loose_tile_position' = None
    /\ last' = "new"
    /\ ops' = 0
    /\ UNCHANGED reachVars

----------------------------------------------------------------------------
(* insert_loose_tile *)

\* the guide indices the view offers on an edge
InsertGuides(dir) ==
    IF dir \in {"North", "South"}
    THEN 0..((width \div 2) - 1)
    ELSE 0..((height \div 2) - 1)

\* the first index past the guides of an edge: the field is public and unchecked
PastGuides(dir) ==
    IF dir \in {"North", "South"} THEN width \div 2 ELSE height \div 2

\* the controller stages a slot, or clears it; assignments in a row count as one
SetLoosePosition ==
    /\ status = "ok"
    /\ rpc = "idle"
    /\ ops < MaxOps
    /\ last # "stage"
    /\ \E pos \in {None} \cup {Some(dir, g) : dir \in Directions, g \in 0..MaxHalf} :
          /\ pos # None => pos[2] \in InsertGuides(pos[1]) \cup {PastGuides(pos[1])}
          /\ pos # loose_tile_position
          /\ loose_tile_position' = pos
    /\ last' = "stage"
    /\ UNCHANGED <<cells, loose_tile, player_tokens, status, pre, born, args, ops>>
    /\ UNCHANGED reachVars

\* the lane index without the offset that skips the corner lane
TargetIdxEven(guide_idx) == 2 * guide_idx

\* line 98: the lane a guide index stands for
TargetIdx(guide_idx) == 2 * guide_idx + 1

\* the walk started at the edge the tile enters
StartCellEntryEdge(c, dir, target_idx) ==
    CASE dir = "North" -> <<0, target_idx>>
      [] dir = "South" -> <<Height(c) - 1, target_idx>>
      [] dir = "West"  -> <<target_idx, 0>>
      [] dir = "East"  -> <<target_idx, Width(c) - 1>>

\* the walk from North started one row short of the southern edge
StartCellInner(c, dir, target_idx) ==
    CASE dir = "North" -> <<Height(c) - 2, target_idx>>
      [] dir = "South" -> <<0, target_idx>>
      [] dir = "West"  -> <<target_idx, Width(c) - 1>>
      [] dir = "East"  -> <<target_idx, 0>>

\* where the walk starts: the cell opposite the edge the tile enters
StartCell(c, dir, target_idx) ==
    CASE dir = "North" -> <<Height(c) - 1, target_idx>>
      [] dir = "South" -> <<0, target_idx>>
      [] dir = "West"  -> <<target_idx, Width(c) - 1>>
      [] dir = "East"  -> <<target_idx, 0>>

\* the while loop copying the current cell into the next one
RECURSIVE WalkSmearing(_, _, _, _)
WalkSmearing(c, j, i, dir) ==
    IF valid(c, <<j, i>>, dir)
    THEN LET next == step(<<j, i>>, dir)
         IN WalkSmearing([c EXCEPT ![next[1]][next[2]] = c[j][i]], next[1], next[2], dir)
    ELSE [cells |-> c, j |-> j, i |-> i]

\* the body of the while loop run at most once
WalkOnce(c, j, i, dir) ==
    IF valid(c, <<j, i>>, dir)
    THEN LET next == step(<<j, i>>, dir)
         IN [cells |-> [c EXCEPT ![j][i] = c[next[1]][next[2]]], j |-> next[1], i |-> next[2]]
    ELSE [cells |-> c, j |-> j, i |-> i]

\* the while loop: copy the next cell into the current one and advance
RECURSIVE Walk(_, _, _, _)
Walk(c, j, i, dir) ==
    IF valid(c, <<j, i>>, dir)
    THEN LET next == step(<<j, i>>, dir)
         IN Walk([c EXCEPT ![j][i] = c[next[1]][next[2]]], next[1], next[2], dir)
    ELSE [cells |-> c, j |-> j, i |-> i]

\* the walk without the write of the loose tile
ShiftedKeepingEnd(c, loose, dir, start) == Walk(c, start[1], start[2], dir).cells

\* the grid after the walk and the write of the loose tile where it stopped
Shifted(c, loose, dir, start) ==
    LET w == Walk(c, start[1], start[2], dir)
    IN [w.cells EXCEPT ![w.j][w.i] = loose]

\* the fields of self when insert_loose_tile returns, or as they were when it panicked
Inserted(b) ==
    IF b.loose_tile_position = None
    THEN [board |-> b, panicked |-> FALSE]
    ELSE LET dir == b.loose_tile_position[1]
             guide_idx == b.loose_tile_position[2]
             start == StartCell(b.cells, dir, TargetIdx(guide_idx))
         IN IF start \notin Coords(b.cells)
            THEN \* the index at line 106 is out of bounds
                 [board |-> b, panicked |-> TRUE]
            ELSE LET next_loose_tile == b.cells[start[1]][start[2]]
                 IN [board |-> [b EXCEPT !.cells = Shifted(b.cells, b.loose_tile, dir, start),
                                         !.loose_tile = next_loose_tile],
                     panicked |-> FALSE]

\* insert_loose_tile taking a missing slot for the first slot of the North edge
InsertedDefaultSlot(b) ==
    IF b.loose_tile_position = None
    THEN LET r == Inserted([b EXCEPT !.loose_tile_position = Some("North", 0)])
         IN [r EXCEPT !.board.loose_tile_position = None]
    ELSE Inserted(b)

\* insert_loose_tile carrying the tokens of the lane along with its tiles
InsertedCarryingTokens(b) ==
    LET r == Inserted(b)
    IN IF b.loose_tile_position = None \/ r.panicked THEN r
       ELSE LET dir == b.loose_tile_position[1]
                t == TargetIdx(b.loose_tile_position[2])
                back == opposite(dir)
                carried(pos) ==
                    IF (IF dir \in {"North", "South"} THEN pos[2] = t ELSE pos[1] = t)
                       /\ valid(b.cells, pos, back)
                    THEN step(pos, back)
                    ELSE pos
            IN [r EXCEPT !.board.player_tokens =
                    [p \in DOMAIN b.player_tokens |->
                        [b.player_tokens[p] EXCEPT !.position = carried(@)]]]

\* insert_loose_tile resetting the staged slot once the tile is in
InsertedClearingSlot(b) ==
    LET r == Inserted(b)
    IN IF r.panicked THEN r ELSE [r EXCEPT !.board.loose_tile_position = None]

\* Board::insert_loose_tile
insert_loose_tile(b) == Inserted(b)

InsertLooseTile ==
    /\ status = "ok"
    /\ rpc = "idle"
    /\ ops < MaxOps
    /\ ops' = ops + 1
    /\ pre' = Snapshot
    /\ last' = "insert"
    /\ LET r == insert_loose_tile(Snapshot)
       IN /\ cells' = r.board.cells
          /\ loose_tile' = r.board.loose_tile
          /\ loose_tile_position' = r.board.loose_tile_position
          /\ player_tokens' = r.board.player_tokens
          /\ status' = IF r.panicked THEN "insert_panicked" ELSE "ok"
    /\ UNCHANGED <<born, args>>
    /\ UNCHANGED reachVars

----------------------------------------------------------------------------
(* reachable_coords *)

\* the for loop without the test that the neighbour connects back
RECURSIVE ScanFromOneSided(_, _, _, _)
ScanFromOneSided(c, st, curr, k) ==
    LET dirs == pathsSeq(c[curr[1]][curr[2]])
    IN IF k > Len(dirs) THEN st
       ELSE LET dir == dirs[k]
                next == step(curr, dir)
                seen ==
                    IF /\ valid(c, curr, dir)
                       /\ next \notin st.result
                    THEN [result |-> st.result \cup {next},
                          frontier |-> Append(st.frontier, next),
                          pushes |-> [st.pushes EXCEPT ![next] = @ + 1]]
                    ELSE st
            IN ScanFromOneSided(c, seen, curr, k + 1)

\* the for loop testing the neighbour for the direction itself, not its opposite
RECURSIVE ScanFromSameDir(_, _, _, _)
ScanFromSameDir(c, st, curr, k) ==
    LET dirs == pathsSeq(c[curr[1]][curr[2]])
    IN IF k > Len(dirs) THEN st
       ELSE LET dir == dirs[k]
                next == step(curr, dir)
                seen ==
                    IF /\ valid(c, curr, dir)
                       /\ dir \in paths(c[next[1]][next[2]])
                       /\ next \notin st.result
                    THEN [result |-> st.result \cup {next},
                          frontier |-> Append(st.frontier, next),
                          pushes |-> [st.pushes EXCEPT ![next] = @ + 1]]
                    ELSE st
            IN ScanFromSameDir(c, seen, curr, k + 1)

\* the for loop without the test that the neighbour is not yet in result
RECURSIVE ScanFromRevisiting(_, _, _, _)
ScanFromRevisiting(c, st, curr, k) ==
    LET dirs == pathsSeq(c[curr[1]][curr[2]])
    IN IF k > Len(dirs) THEN st
       ELSE LET dir == dirs[k]
                next == step(curr, dir)
                seen ==
                    IF /\ valid(c, curr, dir)
                       /\ opposite(dir) \in paths(c[next[1]][next[2]])
                    THEN [result |-> st.result \cup {next},
                          frontier |-> Append(st.frontier, next),
                          pushes |-> [st.pushes EXCEPT ![next] = @ + 1]]
                    ELSE st
            IN ScanFromRevisiting(c, seen, curr, k + 1)

\* the body of the for loop for the k-th and later paths of the tile at curr
RECURSIVE ScanFrom(_, _, _, _)
ScanFrom(c, st, curr, k) ==
    LET dirs == pathsSeq(c[curr[1]][curr[2]])
    IN IF k > Len(dirs) THEN st
       ELSE LET dir == dirs[k]
                next == step(curr, dir)
                seen ==
                    IF /\ valid(c, curr, dir)
                       /\ opposite(dir) \in paths(c[next[1]][next[2]])
                       /\ next \notin st.result
                    THEN [result |-> st.result \cup {next},
                          frontier |-> Append(st.frontier, next),
                          pushes |-> [st.pushes EXCEPT ![next] = @ + 1]]
                    ELSE st
            IN ScanFrom(c, seen, curr, k + 1)

\* one iteration of the while loop: pop a cell and scan its paths
Scan(c, st) ==
    LET n == Len(st.frontier)
        curr == st.frontier[n]
    IN ScanFrom(c, [st EXCEPT !.frontier = SubSeq(st.frontier, 1, n - 1)], curr, 1)

\* the entry without the insertion of from into result
ReachEntryEmpty(c, f) ==
    [result |-> {}, frontier |-> <<f>>,
     pushes |-> [p \in Coords(c) |-> IF p = f THEN 1 ELSE 0]]

\* result and frontier as lines 121-123 set them
ReachEntry(c, f) ==
    [result |-> {f}, frontier |-> <<f>>,
     pushes |-> [p \in Coords(c) |-> IF p = f THEN 1 ELSE 0]]

\* the while loop run to its end
RECURSIVE ReachLoop(_, _)
ReachLoop(c, st) ==
    IF st.frontier = <<>> THEN st ELSE ReachLoop(c, Scan(c, st))

\* Board::reachable_coords
reachable_coords(c, f) == ReachLoop(c, ReachEntry(c, f)).result

ReachState == [result |-> result, frontier |-> frontier, pushes |-> pushes]

ReachStart ==
    /\ status = "ok"
    /\ rpc \in {"idle", "done"}
    /\ \E f \in Coords(cells) :
          /\ from' = f
          /\ result' = ReachEntry(cells, f).result
          /\ frontier' = ReachEntry(cells, f).frontier
          /\ pushes' = ReachEntry(cells, f).pushes
    /\ rpc' = "loop"
    /\ last' = "reach"
    /\ UNCHANGED <<status, pre, born, args, ops>>
    /\ UNCHANGED boardVars

ReachPop ==
    /\ rpc = "loop"
    /\ frontier # <<>>
    /\ LET st == Scan(cells, ReachState)
       IN /\ result' = st.result
          /\ frontier' = st.frontier
          /\ pushes' = st.pushes
    /\ UNCHANGED <<from, rpc, status, last, pre, born, args, ops>>
    /\ UNCHANGED boardVars

ReachReturn ==
    /\ rpc = "loop"
    /\ frontier = <<>>
    /\ rpc' = "done"
    /\ UNCHANGED <<from, result, frontier, pushes, status, last, pre, born, args, ops>>
    /\ UNCHANGED boardVars

----------------------------------------------------------------------------
(* the controller moves a token to a cell reachable_coords allows; moves in a   *)
(* row count as one, and a slot is staged only right before an insertion       *)

MoveToken ==
    /\ status = "ok"
    /\ rpc = "idle"
    /\ ops < MaxOps
    /\ last \notin {"move", "stage"}
    /\ \E p \in DOMAIN player_tokens :
          \E pos \in reachable_coords(cells, player_tokens[p].position) :
             /\ pos # player_tokens[p].position
             /\ player_tokens' = [player_tokens EXCEPT ![p].position = pos]
    /\ ops' = ops + 1
    /\ last' = "move"
    /\ UNCHANGED <<cells, loose_tile, loose_tile_position, status, pre, born, args>>
    /\ UNCHANGED reachVars

----------------------------------------------------------------------------

Next == SetLoosePosition \/ InsertLooseTile \/ MoveToken

Spec == Init /\ [][Next]_vars

NextReach == ReachStart \/ ReachPop \/ ReachReturn

SpecReach == InitReach /\ [][NextReach]_vars

NextNew == BoardNew

SpecNew == InitNew /\ [][NextNew]_vars

----------------------------------------------------------------------------
(* Properties of insert_loose_tile, checked under Spec *)

\* Board::new returned a board
HasBoard == status # "new_panicked"

\* the operation performed last was an insert_loose_tile call that shifted a lane
ShiftDone == last = "insert" /\ status = "ok" /\ pre.loose_tile_position # None

\* the direction and the lane index 2g+1 of that call
ShiftDir == pre.loose_tile_position[1]
LaneIdx == 2 * pre.loose_tile_position[2] + 1

\* the cells of lane t: a column for North and South, a row for West and East
Lane(dir, t) ==
    {p \in Coords(cells) : IF dir \in {"North", "South"} THEN p[2] = t ELSE p[1] = t}

\* the cell whose tile is pushed off, and the cell that receives the loose tile
LaneStart(dir, t) ==
    CASE dir = "North" -> <<height - 1, t>>
      [] dir = "South" -> <<0, t>>
      [] dir = "West"  -> <<t, width - 1>>
      [] dir = "East"  -> <<t, 0>>

LaneEnd(dir, t) ==
    CASE dir = "North" -> <<0, t>>
      [] dir = "South" -> <<height - 1, t>>
      [] dir = "West"  -> <<t, 0>>
      [] dir = "East"  -> <<t, width - 1>>

At(c, p) == c[p[1]][p[2]]

\* every tile there is
TileKinds == [shape : Shapes, orientation : Directions]

\* the cells where two grids of the same size differ
Differing(c1, c2) == {p \in Coords(c1) : At(c1, p) # At(c2, p)}

\* how often tile t occurs among the loose tile and the tiles grid c holds on cells D
Occurrences(c, D, loose, t) ==
    Cardinality({p \in D : At(c, p) = t}) + (IF loose = t THEN 1 ELSE 0)

\* boards a and b hold the same multiset of tiles, grid and loose tile together:
\* the cells where the grids agree add the same to both sides, so the tiles are
\* counted on the cells where they differ
SameTiles(a, b) ==
    /\ DOMAIN a.cells = DOMAIN b.cells
    /\ \A j \in DOMAIN a.cells : DOMAIN a.cells[j] = DOMAIN b.cells[j]
    /\ \A D \in {Differing(a.cells, b.cells)} :
          \A t \in TileKinds :
             Occurrences(a.cells, D, a.loose_tile, t) = Occurrences(b.cells, D, b.loose_tile, t)

\* C1: on a board with odd sides, when a sequence of insertions has run the
\* tiles of the grid plus the loose tile are the multiset Board::new built, the
\* grid holds height*width tiles, and the last insertion took exactly one tile
\* out of the grid (the new loose tile) and put exactly one in (the previous
\* loose tile).
C1_ShiftConservation ==
    (HasBoard /\ last = "insert" /\ width % 2 = 1 /\ height % 2 = 1) =>
        /\ SameTiles(Snapshot, born)
        /\ Cardinality(Coords(cells)) = Height(born.cells) * Width(born.cells)
        /\ ShiftDone =>
              /\ SameTiles(Snapshot, pre)
              /\ \E p \in Coords(cells) : At(pre.cells, p) = loose_tile
              /\ \E p \in Coords(cells) : At(cells, p) = pre.loose_tile

C1_Witness ==
    /\ ShiftDone /\ ops = 2
    /\ pre.cells # born.cells
    /\ cells # pre.cells
    /\ loose_tile # pre.loose_tile
    /\ loose_tile # born.loose_tile

Corners(c) ==
    <<c[0][0], c[0][Width(c) - 1], c[Height(c) - 1][0], c[Height(c) - 1][Width(c) - 1]>>

\* C2: on a board with odd sides of at least 5, no sequence of insertions changes
\* the tiles of the four corner cells, the lane index 2g+1 of a shift being never
\* 0, width-1 or height-1.
C2_CornersImmutable ==
    (HasBoard /\ width % 2 = 1 /\ height % 2 = 1 /\ width >= 5 /\ height >= 5) =>
        /\ Corners(cells) = Corners(born.cells)
        /\ ShiftDone => LaneIdx \notin {0, width - 1, height - 1}

C2_Witness ==
    /\ ShiftDone /\ ops = 2
    /\ width >= 5 /\ height >= 5 /\ width # height
    /\ pre.cells # born.cells
    /\ cells # pre.cells
    /\ ShiftDir \in {"West", "East"}
    /\ LaneIdx = height - 2

\* C3: an insertion with (dir, g) staged makes the tile of the start cell of lane
\* 2g+1 the new loose tile and writes the previous loose tile into the cell at the
\* other end of the lane.
C3_PushedOffAndEntered ==
    ShiftDone =>
        /\ loose_tile = At(pre.cells, LaneStart(ShiftDir, LaneIdx))
        /\ At(cells, LaneEnd(ShiftDir, LaneIdx)) = pre.loose_tile

C3_Witness ==
    /\ ShiftDone
    /\ width # height
    /\ At(pre.cells, LaneStart(ShiftDir, LaneIdx)) # At(pre.cells, LaneEnd(ShiftDir, LaneIdx))
    /\ pre.loose_tile # At(pre.cells, LaneEnd(ShiftDir, LaneIdx))
    /\ pre.loose_tile # loose_tile

\* an insertion from North at guide index 0 into a 7x7 board has just shifted column 1
NorthZeroOnSeven ==
    /\ ShiftDone
    /\ width = 7 /\ height = 7
    /\ pre.loose_tile_position = Some("North", 0)

\* C4 as stated: after an insertion from North at guide index 0 into a 7x7 board
\* the new loose tile is the tile that was at (row 5, col 1).
C4_Original == NorthZeroOnSeven => loose_tile = pre.cells[5][1]

\* C4 amended: after an insertion from North at guide index 0 into a 7x7 board the
\* new loose tile is the tile that was at (row 6, col 1), the southmost cell of
\* column 1, and the tile that was at (row 5, col 1) is now at (row 6, col 1).
C4_SouthmostPushedOff ==
    NorthZeroOnSeven =>
        /\ loose_tile = pre.cells[6][1]
        /\ cells[6][1] = pre.cells[5][1]

C4_Witness ==
    /\ NorthZeroOnSeven
    /\ pre.cells[5][1] # pre.cells[6][1]
    /\ pre.cells[6][1] # pre.loose_tile

\* C5 as stated: an insertion moves every tile of the lane that stays on the board
\* one position toward the entry edge, the edge whose cell receives the previous
\* loose tile (one step in dir); stated for the tiles that have a cell there.
C5_Original ==
    ShiftDone =>
        \A p \in Lane(ShiftDir, LaneIdx) :
            (p # LaneStart(ShiftDir, LaneIdx) /\ p # LaneEnd(ShiftDir, LaneIdx)) =>
                At(cells, step(p, ShiftDir)) = At(pre.cells, p)

\* C5 amended: an insertion moves every tile of the lane that stays on the board
\* one position away from the entry edge (one step against dir), toward the edge
\* where the tile at the start cell is pushed off.
C5_ShiftAwayFromEntry ==
    ShiftDone =>
        \A p \in Lane(ShiftDir, LaneIdx) :
            p # LaneStart(ShiftDir, LaneIdx) =>
                At(cells, step(p, opposite(ShiftDir))) = At(pre.cells, p)

C5_Witness ==
    /\ ShiftDone
    /\ ShiftDir = "West"
    /\ width = 7 /\ height = 5
    /\ \A p \in Lane(ShiftDir, LaneIdx) :
          p # LaneStart(ShiftDir, LaneIdx) =>
              At(pre.cells, p) # At(pre.cells, step(p, opposite(ShiftDir)))

\* C6: insert_loose_tile called with loose_tile_position None returns with the
\* grid, the loose tile, loose_tile_position and the tokens as they were, however
\* often it is called; called on the board Board::new returned it leaves that board.
C6_IdleNoOp ==
    /\ (last = "insert" /\ pre.loose_tile_position = None) =>
            (Snapshot = pre /\ status = "ok")
    /\ (last = "insert" /\ pre = born) => Snapshot = born

C6_Witness ==
    /\ last = "insert" /\ ops = 2
    /\ pre = born
    /\ Snapshot = born
    /\ born.loose_tile_position = None
    /\ height = 5 /\ width = 5

\* C7: insert_loose_tile leaves player_tokens as it was, also for a token standing
\* in the shifted lane or on the cell whose tile is pushed off; every token
\* position is inside the grid.
C7_TokensUntouched ==
    HasBoard =>
        /\ last = "insert" => player_tokens = pre.player_tokens
        /\ \A p \in DOMAIN player_tokens :
              /\ player_tokens[p].player_id = p
              /\ player_tokens[p].position \in Coords(cells)

C7_Witness ==
    /\ ShiftDone
    /\ \E p \in DOMAIN player_tokens :
          /\ player_tokens[p].position = LaneStart(ShiftDir, LaneIdx)
          /\ At(cells, player_tokens[p].position) # At(pre.cells, player_tokens[p].position)

\* C17: after an insertion in direction dir into lane t, every cell p of the lane
\* from which a step in dir stays inside the grid holds the tile that was at
\* p + dir; for dir North the tile that was at (r, t) is at (r+1, t), for every r
\* in 0..height-2.
C17_LaneCellsTakeNeighbour ==
    ShiftDone =>
        /\ \A p \in Lane(ShiftDir, LaneIdx) :
              valid(pre.cells, p, ShiftDir) => At(cells, p) = At(pre.cells, step(p, ShiftDir))
        /\ ShiftDir = "North" =>
              \A r \in 0..(height - 2) : cells[r + 1][LaneIdx] = pre.cells[r][LaneIdx]

\* an insertion from North into a column whose neighbouring tiles all differ
C17_Witness ==
    /\ ShiftDone
    /\ ShiftDir = "North"
    /\ height = 7 /\ width = 5
    /\ \A r \in 0..(height - 2) : pre.cells[r][LaneIdx] # pre.cells[r + 1][LaneIdx]
    /\ \A r \in 0..(height - 2) : cells[r + 1][LaneIdx] = pre.cells[r][LaneIdx]

\* the last operation was an insert_loose_tile call with a slot staged
StagedCall == last = "insert" /\ pre.loose_tile_position # None

\* the lane index 2g+1 of that call names a column (North, South) or row (West,
\* East) of the grid
LaneInGrid ==
    IF ShiftDir \in {"North", "South"}
    THEN LaneIdx < Width(pre.cells)
    ELSE LaneIdx < Height(pre.cells)

\* the grid is the one before the call with the whole lane shifted: the cell at
\* the far end in dir holds the previous loose tile, every other cell of the lane
\* the tile of its neighbour in dir
LaneShiftedWhole ==
    \A p \in Lane(ShiftDir, LaneIdx) :
        At(cells, p) = IF valid(pre.cells, p, ShiftDir)
                       THEN At(pre.cells, step(p, ShiftDir))
                       ELSE pre.loose_tile

\* C16: insert_loose_tile with (dir, guide_idx) staged either performs the
\* complete lane shift, or, when the lane index 2*guide_idx+1 lies outside the
\* grid for dir, panics with the grid, the loose tile, loose_tile_position and the
\* tokens as they were before the call; no call leaves a lane partly shifted.
C16_Atomic ==
    StagedCall =>
        IF LaneInGrid
        THEN /\ status = "ok"
             /\ LaneShiftedWhole
             /\ loose_tile = At(pre.cells, LaneStart(ShiftDir, LaneIdx))
        ELSE /\ status = "insert_panicked"
             /\ Snapshot = pre

\* a call that panicked on a lane index past the grid, after an earlier call
\* that shifted a lane of the same board
C16_Witness ==
    /\ StagedCall
    /\ ~LaneInGrid
    /\ status = "insert_panicked"
    /\ Snapshot = pre
    /\ ops = 2
    /\ pre.cells # born.cells
    /\ Width(pre.cells) # Height(pre.cells)

\* C19: insert_loose_tile with (dir, g) staged changes only cells of lane 2g+1
\* (column 2g+1 for North and South, row 2g+1 for West and East) and the loose
\* tile: every cell outside the lane holds the tile it held before the call, and
\* width() and height() are as before.
C19_OnlyTheLane ==
    StagedCall =>
        /\ width = Width(pre.cells)
        /\ height = Height(pre.cells)
        /\ \A p \in Coords(cells) :
              p \notin Lane(ShiftDir, LaneIdx) => At(cells, p) = At(pre.cells, p)
        /\ loose_tile_position = pre.loose_tile_position
        /\ player_tokens = pre.player_tokens

\* a shift of a row of a board of unequal sides that changed every cell of the
\* row and the loose tile
C19_Witness ==
    /\ ShiftDone
    /\ ShiftDir \in {"West", "East"}
    /\ width # height
    /\ Differing(cells, pre.cells) = Lane(ShiftDir, LaneIdx)
    /\ loose_tile # pre.loose_tile

\* C20: insert_loose_tile leaves loose_tile_position as it was, so a slot staged
\* before the call is staged after it, and a call that follows with nothing
\* staged in between shifts the same lane in the same direction once more.
C20_SlotStaysStaged ==
    /\ [](last = "insert" => loose_tile_position = pre.loose_tile_position)
    /\ [][(last = "insert" /\ last' = "insert" /\ loose_tile_position # None) =>
            /\ status' = "ok"
            /\ pre'.loose_tile_position = pre.loose_tile_position
            /\ loose_tile_position' = pre.loose_tile_position
            /\ LaneShiftedWhole'
            /\ loose_tile' = At(cells, LaneStart(ShiftDir, LaneIdx))]_vars

\* two calls in a row on one staged slot: the first pushed off the start cell of
\* the lane and put the first loose tile in at the far end, the second pushed
\* off the tile that had moved to the start cell and moved the first loose tile
\* on by one cell
C20_Witness ==
    /\ ShiftDone /\ ops = 2
    /\ loose_tile_position = pre.loose_tile_position
    /\ pre.player_tokens = born.player_tokens
    /\ pre.loose_tile = At(born.cells, LaneStart(ShiftDir, LaneIdx))
    /\ At(pre.cells, LaneEnd(ShiftDir, LaneIdx)) = born.loose_tile
    /\ At(cells, step(LaneEnd(ShiftDir, LaneIdx), opposite(ShiftDir))) = born.loose_tile
    /\ At(cells, LaneEnd(ShiftDir, LaneIdx)) = pre.loose_tile
    /\ Differing(pre.cells, born.cells) # {}
    /\ Differing(pre.cells, born.cells) \subseteq Lane(ShiftDir, LaneIdx)
    /\ cells # pre.cells
    /\ cells # born.cells

\* C21: an insertion with (dir, g) staged followed by an insertion with
\* (opposite(dir), g) staged, the loose tile not rotated in between, leaves every
\* grid cell and the loose tile as they were before the first of the two.
C21_OppositeEdgeUndoes ==
    [][(/\ last' = "insert"
        /\ status = "ok"
        /\ pre.loose_tile_position # None
        /\ loose_tile_position = Some(opposite(pre.loose_tile_position[1]),
                                      pre.loose_tile_position[2]))
       => /\ status' = "ok"
          /\ cells' = pre.cells
          /\ loose_tile' = pre.loose_tile]_vars

\* the second of two insertions into one lane from opposite edges: the first
\* changed the lane and the loose tile, the second brought both back
C21_Witness ==
    /\ ShiftDone /\ ops = 2
    /\ pre.player_tokens = born.player_tokens
    /\ pre.cells # born.cells
    /\ pre.loose_tile # born.loose_tile
    /\ Differing(pre.cells, born.cells) \subseteq Lane(ShiftDir, LaneIdx)
    /\ pre.loose_tile = At(born.cells, LaneEnd(ShiftDir, LaneIdx))
    /\ At(pre.cells, LaneStart(ShiftDir, LaneIdx)) = born.loose_tile
    /\ cells = born.cells
    /\ loose_tile = born.loose_tile
    /\ width # height

----------------------------------------------------------------------------
(* Properties of reachable_coords, checked under SpecReach *)

\* the edge of the passage graph: b is the neighbour of a in a direction d that a
\* opens, and b opens the opposite direction
Connects(c, a, b) ==
    /\ a \in Coords(c)
    /\ b \in Coords(c)
    /\ \E d \in Directions :
          /\ b = step(a, d)
          /\ d \in paths(At(c, a))
          /\ opposite(d) \in paths(At(c, b))

\* the least set that holds S and is closed under the edges
RECURSIVE Closure(_, _)
Closure(c, S) ==
    LET grown == S \cup {b \in Coords(c) : \E a \in S : Connects(c, a, b)}
    IN IF grown = S THEN S ELSE Closure(c, grown)

Component(c, f) == Closure(c, {f})

\* the cells the scan of cell a adds to a result holding only a
FirstHop(c, a) == Scan(c, ReachEntry(c, a)).result \ {a}

\* C8: reachable_coords(from) returns the connected component of from in the
\* graph whose edges join adjacent in-bounds cells with mutually matching
\* passages: every cell of the component and no other cell.
C8_ReachIsComponent ==
    rpc = "done" =>
        /\ result = Component(cells, from)
        /\ result \subseteq Coords(cells)

\* a run that returned several cells, left out a neighbour that a returned cell
\* opens a passage to, and met a passage leading off the grid
C8_Witness ==
    /\ rpc = "done"
    /\ Cardinality(result) >= 4
    /\ \E a \in result, d \in Directions :
          /\ d \in paths(At(cells, a))
          /\ valid(cells, a, d)
          /\ step(a, d) \notin result
    /\ \E a \in result, d \in Directions :
          /\ d \in paths(At(cells, a))
          /\ step(a, d) \notin Coords(cells)

\* C9: from is in reachable_coords(from), and when no passage of from's tile
\* connects to a neighbour the result is exactly {from}.
C9_Reflexive ==
    /\ rpc \in {"loop", "done"} => from \in result
    /\ (rpc = "done" /\ \A b \in Coords(cells) : ~Connects(cells, from, b)) =>
            result = {from}

C9_Witness ==
    /\ rpc = "done"
    /\ result = {from}
    /\ \A b \in Coords(cells) : ~Connects(cells, from, b)
    /\ \E d \in paths(At(cells, from)) : valid(cells, from, d)

\* C10: if the scan of cell A adds its neighbour B, then the scan of B adds A.
C10_OneHopSymmetry ==
    rpc \in {"loop", "done"} =>
        \A d \in Directions :
            LET b == step(from, d)
            IN (b \in Coords(cells) /\ b \in FirstHop(cells, from)) =>
                    from \in FirstHop(cells, b)

C10_Witness ==
    /\ rpc = "done"
    /\ \E d \in Directions :
          /\ step(from, d) \in Coords(cells)
          /\ step(from, d) \in FirstHop(cells, from)
          /\ from \in FirstHop(cells, step(from, d))
    /\ \E d \in paths(At(cells, from)) :
          /\ valid(cells, from, d)
          /\ step(from, d) \notin FirstHop(cells, from)

\* C11: for every cell B that reachable_coords(A) returns, reachable_coords(B)
\* returns the same set as reachable_coords(A).
C11_Closure ==
    rpc = "done" =>
        \A b \in result : reachable_coords(cells, b) = result

\* a run that returned several cells but not the whole grid, one of them at least
\* two steps away from A
C11_Witness ==
    /\ rpc = "done"
    /\ Cardinality(result) >= 3
    /\ result # Coords(cells)
    /\ \E b \in result :
          /\ b # from
          /\ ~Connects(cells, from, b)
          /\ reachable_coords(cells, b) = result

\* the cell directly east of cell a
EastOf(a) == step(a, "East")

\* reachable_coords(from) has returned, from holds a corner tile with passages
\* North and East and the cell directly east of it holds a straight-through tile
CornerBesideStraight ==
    /\ rpc = "done"
    /\ At(cells, from).shape = "L"
    /\ paths(At(cells, from)) = {"North", "East"}
    /\ valid(cells, from, "East")
    /\ At(cells, EastOf(from)).shape = "I"

\* C12 as stated: the straight tile's cell is in reachable_coords(corner) if and
\* only if the straight tile's passages contain West; with passages North and
\* South its cell is not in reachable_coords(corner).
C12_Original ==
    CornerBesideStraight =>
        /\ EastOf(from) \in result <=> "West" \in paths(At(cells, EastOf(from)))
        /\ paths(At(cells, EastOf(from))) = {"North", "South"} => EastOf(from) \notin result

\* C12 amended: the scan of the corner's cell adds the straight tile's cell if and
\* only if the straight tile's passages contain West, and then the cell is in
\* reachable_coords(corner); with passages North and South the cell is in
\* reachable_coords(corner) only when its northern or southern neighbour is, with
\* a passage facing it.
C12_StraightBesideCorner ==
    CornerBesideStraight =>
        /\ EastOf(from) \in FirstHop(cells, from) <=> "West" \in paths(At(cells, EastOf(from)))
        /\ "West" \in paths(At(cells, EastOf(from))) => EastOf(from) \in result
        /\ (paths(At(cells, EastOf(from))) = {"North", "South"} /\ EastOf(from) \in result) =>
              \E b \in result \ {from} : Connects(cells, b, EastOf(from))

\* a straight tile with passages North and South east of the corner, returned
\* because the corner reaches it the long way round
C12_Witness ==
    /\ CornerBesideStraight
    /\ paths(At(cells, EastOf(from))) = {"North", "South"}
    /\ EastOf(from) \in result
    /\ EastOf(from) \notin FirstHop(cells, from)

\* the cells pushed on frontier so far
Pushed == {p \in Coords(cells) : pushes[p] >= 1}

\* the pops performed so far: every push but the ones still on frontier
Pops == Cardinality(Pushed) - Len(frontier)

\* the steps of the walk of insert_loose_tile from start in direction dir
WalkSteps(c, dir, start) ==
    LET w == Walk(c, start[1], start[2], dir)
        dj == IF w.j >= start[1] THEN w.j - start[1] ELSE start[1] - w.j
        di == IF w.i >= start[2] THEN w.i - start[2] ELSE start[2] - w.i
    IN dj + di

\* every lane walk on the board takes at most max(height, width) - 1 steps
WalksBounded ==
    \A dir \in Directions, g \in 0..MaxHalf :
        LET start == StartCell(cells, dir, TargetIdx(g))
        IN start \in Coords(cells) =>
              WalkSteps(cells, dir, start) <= (IF height >= width THEN height ELSE width) - 1

\* C18: reachable_coords terminates on every board and in-bounds start: no cell
\* is pushed on frontier more than once, a cell is pushed exactly when it is
\* added to result, every iteration of the loop pops one cell or is the last,
\* and the loop performs at most height*width pops; the lane walk of
\* insert_loose_tile ends after at most max(height, width) - 1 steps.
C18_Terminates ==
    /\ [](rpc \in {"loop", "done"} =>
            /\ \A p \in Coords(cells) : pushes[p] <= 1
            /\ Pushed = result
            /\ Pops <= height * width)
    /\ [](rpc = "idle" => WalksBounded)
    /\ [][rpc = "loop" => (Pops' = Pops + 1 \/ (frontier = <<>> /\ rpc' = "done"))]_vars

\* a run that returned after popping at least five cells, one of them a cell two
\* of its neighbours in the result open onto
C18_Witness ==
    /\ rpc = "done"
    /\ Pops >= 5
    /\ Pops = Cardinality(result)
    /\ \E p \in result : \E a, b \in result :
          a # b /\ Connects(cells, a, p) /\ Connects(cells, b, p)

----------------------------------------------------------------------------
(* Properties of Board::new, checked under SpecNew *)

\* Board::new has just returned a board
Constructed == status = "ok" /\ last = "new"

\* cell p holds an L tile whose two passages are exactly ds, which are
\* perpendicular and lead to neighbours inside the grid
InwardCorner(p, ds) ==
    /\ At(cells, p).shape = "L"
    /\ paths(At(cells, p)) = ds
    /\ Cardinality(paths(At(cells, p))) = 2
    /\ \A d \in paths(At(cells, p)) :
          /\ opposite(d) \notin paths(At(cells, p))
          /\ valid(cells, p, d)

\* C13: every board Board::new returns with odd width and height of at least 5
\* holds in each corner cell an L tile with exactly two passages, perpendicular
\* and pointing into the board: East and South top-left, South and West
\* top-right, North and East bottom-left, North and West bottom-right.
C13_CornerTiles ==
    (Constructed /\ width % 2 = 1 /\ height % 2 = 1 /\ width >= 5 /\ height >= 5) =>
        /\ width = args.width /\ height = args.height
        /\ InwardCorner(<<0, 0>>, {"East", "South"})
        /\ InwardCorner(<<0, width - 1>>, {"South", "West"})
        /\ InwardCorner(<<height - 1, 0>>, {"North", "East"})
        /\ InwardCorner(<<height - 1, width - 1>>, {"North", "West"})

\* a board of unequal sides whose cells next to the top-left corner hold tiles
\* that are no L tiles
C13_Witness ==
    /\ Constructed
    /\ width = 5 /\ height = 7
    /\ cells[0][1].shape # "L"
    /\ cells[1][0].shape # "L"
    /\ InwardCorner(<<0, 0>>, {"East", "South"})

\* the corners in the order the claim hands them out
CornerInTurn(k) ==
    CASE k = 0 -> <<0, 0>>
      [] k = 1 -> <<height - 1, width - 1>>
      [] k = 2 -> <<0, width - 1>>
      [] k = 3 -> <<height - 1, 0>>

\* how many players of the call have a smaller id than p
Rank(p) == Cardinality({q \in args.players : q < p})

\* C14: Board::new with at most 4 players creates exactly one token per player,
\* keyed by the player's id, the players in ascending id order standing at (0,0),
\* (height-1,width-1), (0,width-1), (height-1,0); the tokens are a function of the
\* set of ids and the dimensions alone.
C14_TokensByAscendingId ==
    (last = "new" /\ Cardinality(args.players) <= 4) =>
        /\ status = "ok"
        /\ DOMAIN player_tokens = args.players
        /\ \A p \in args.players :
              /\ player_tokens[p].player_id = p
              /\ player_tokens[p].position = CornerInTurn(Rank(p))

\* four players whose ids leave gaps, on a board of unequal sides
C14_Witness ==
    /\ Constructed
    /\ args.players = {1, 3, 4, 6}
    /\ width = 7 /\ height = 5
    /\ player_tokens[6].position = <<4, 0>>

\* C15: Board::new called with more than 4 players panics and produces no Board,
\* for every number of players from 5 upward; with 0 to 4 players it does not.
C15_TooManyPlayers ==
    last = "new" =>
        /\ Cardinality(args.players) > 4 =>
              (status = "new_panicked" /\ cells = <<>> /\ player_tokens = <<>>)
        /\ Cardinality(args.players) <= 4 => status = "ok"

C15_Witness ==
    /\ last = "new"
    /\ status = "new_panicked"
    /\ Cardinality(args.players) = 6

====
